---- MODULE Spec2Model ----
(***************************************************************************)
(* Player-card enrichment backend: the enrichment cache, the upstream      *)
(* (Warcraft Logs) client as seen by the orchestrator, the POST            *)
(* /api/enrich-player-card request handler and the season configuration    *)
(* service.  Every `await` on a storage statement or an upstream call is   *)
(* a point where another request may run; one storage statement is atomic. *)
(***************************************************************************)
EXTENDS Integers, FiniteSets, Sequences, TLC

\* ------------------------------------------------------------------ bounds
MaxTime == 7
MaxStarts == 2
MaxDbFaults == 1
MaxSeasonOps == 3
MaxCacheOps == 2

\* --------------------------------------------------------------- constants
CACHE_TTL_HOURS == 6

Null == "null"
Undefined == "undefined"

Reqs == {"r1", "r2"}
Admins == {"a1", "a2"}
Callers == {"o1", "o2"}

\* JavaScript truthiness of a string-or-null value: `x || null`
OrNull(x) == IF x \in {Undefined, Null, ""} THEN Null ELSE x

\* String.prototype.includes
Includes(s, sub) ==
  \E i \in 1..(Len(s) - Len(sub) + 1) : SubSeq(s, i, i + Len(sub) - 1) = sub

CharsOf(s) == {SubSeq(s, i, i) : i \in 1..Len(s)}
LowerLetters ==
  {"a", "b", "c", "d", "e", "f", "g", "h", "i", "j", "k", "l", "m",
   "n", "o", "p", "q", "r", "s", "t", "u", "v", "w", "x", "y", "z"}
UpperLetters ==
  {"A", "B", "C", "D", "E", "F", "G", "H", "I", "J", "K", "L", "M",
   "N", "O", "P", "Q", "R", "S", "T", "U", "V", "W", "X", "Y", "Z"}
Digits == {"0", "1", "2", "3", "4", "5", "6", "7", "8", "9"}

\* String.prototype.indexOf, 1-based; 0 when absent
IndexOf(s, sub) ==
  LET hits == {i \in 1..(Len(s) - Len(sub) + 1) : SubSeq(s, i, i + Len(sub) - 1) = sub}
  IN IF hits = {} THEN 0 ELSE CHOOSE i \in hits : \A j \in hits : i <= j

\* The position of the first character of s that is in chars; Len(s) + 1
\* when there is none
FirstOf(s, chars) ==
  LET hits == {i \in 1..Len(s) : SubSeq(s, i, i) \in chars}
  IN IF hits = {} THEN Len(s) + 1 ELSE CHOOSE i \in hits : \A j \in hits : i <= j

startsWith(s, prefix) == Len(s) >= Len(prefix) /\ SubSeq(s, 1, Len(prefix)) = prefix
slice(s, from) == SubSeq(s, from, Len(s))

\* toLowerCase / toUpperCase on ASCII text
atoz == "abcdefghijklmnopqrstuvwxyz"
AtoZ == "ABCDEFGHIJKLMNOPQRSTUVWXYZ"
RECURSIVE toLowerCase(_)
toLowerCase(s) ==
  IF s = "" THEN ""
  ELSE LET c == SubSeq(s, 1, 1)
           i == IndexOf(AtoZ, c)
       IN (IF i = 0 THEN c ELSE SubSeq(atoz, i, i)) \o toLowerCase(slice(s, 2))
RECURSIVE toUpperCase(_)
toUpperCase(s) ==
  IF s = "" THEN ""
  ELSE LET c == SubSeq(s, 1, 1)
           i == IndexOf(atoz, c)
       IN (IF i = 0 THEN c ELSE SubSeq(AtoZ, i, i)) \o toUpperCase(slice(s, 2))

\* String.prototype.trim (the inputs hold no white space other than blanks)
RECURSIVE trim(_)
trim(s) ==
  IF s = "" THEN ""
  ELSE IF SubSeq(s, 1, 1) = " " THEN trim(slice(s, 2))
  ELSE IF SubSeq(s, Len(s), Len(s)) = " " THEN trim(SubSeq(s, 1, Len(s) - 1))
  ELSE s

\* pathname.split('/').filter(part => part !== '')
RECURSIVE PathParts(_)
PathParts(pathname) ==
  IF pathname = "" THEN <<>>
  ELSE LET i == IndexOf(pathname, "/")
       IN IF i = 0 THEN <<pathname>>
          ELSE IF i = 1 THEN PathParts(slice(pathname, 2))
          ELSE <<SubSeq(pathname, 1, i - 1)>> \o PathParts(slice(pathname, i + 1))

\* new URL(text) for an http(s) URL of unreserved ASCII characters: the
\* hostname is the authority without userinfo and port, lower-cased; the
\* pathname runs up to the query or fragment.  ok is FALSE where the
\* constructor throws.
NewURL(text) ==
  LET i == IndexOf(text, "://")
      rest == slice(text, i + 3)
      cut == FirstOf(rest, {"/", "?", "#"})
      authority == SubSeq(rest, 1, cut - 1)
      at == IndexOf(authority, "@")
      hostport == IF at = 0 THEN authority ELSE slice(authority, at + 1)
      host == SubSeq(hostport, 1, FirstOf(hostport, {":"}) - 1)
      tail == slice(rest, cut)
      path == SubSeq(tail, 1, FirstOf(tail, {"?", "#"}) - 1)
  IN IF i = 0 \/ host = "" \/ " " \in CharsOf(host)
     THEN [ok |-> FALSE, hostname |-> "", pathname |-> ""]
     ELSE [ok |-> TRUE, hostname |-> toLowerCase(host),
           pathname |-> IF path = "" THEN "/" ELSE path]

\* The outcome of a normalizer: its value, or the message of the Error thrown
Value(v) == [ok |-> TRUE, value |-> v, message |-> ""]
Throw(message) == [ok |-> FALSE, value |-> "", message |-> message]

VALID_REGIONS == {"us", "eu", "kr", "tw", "cn"}

normalizeRegion(region) ==
  LET normalized == toLowerCase(region)
  IN IF normalized \notin VALID_REGIONS
     THEN Throw("Invalid region '" \o region \o "'. Must be one of: US, EU, KR, TW, CN")
     ELSE Value(toUpperCase(normalized))

normalizeRealmSlug(realm) ==
  IF realm = "" \/ trim(realm) = "" THEN Throw("Realm cannot be empty")
  ELSE LET normalized == trim(toLowerCase(realm))
       IN IF ~(CharsOf(normalized) \subseteq (LowerLetters \cup Digits \cup {"-"}))
          THEN Throw("Invalid realm slug '" \o realm
                     \o "'. Realm must contain only letters, numbers, and hyphens")
          ELSE Value(normalized)

\* A normalizer that keeps the case it is given
normalizeCharacterName_KeepCase(name) == [ok |-> TRUE, value |-> trim(name), message |-> ""]

normalizeCharacterName(name) ==
  IF name = "" \/ trim(name) = "" THEN Throw("Character name cannot be empty")
  ELSE LET normalized == trim(name)
       IN IF Len(normalized) < 2 \/ Len(normalized) > 12
          THEN Throw("Invalid character name length '" \o name
                     \o "'. Must be between 2 and 12 characters")
          ELSE IF ~(CharsOf(normalized) \subseteq (LowerLetters \cup UpperLetters))
          THEN Throw("Invalid character name '" \o name \o "'. Must contain only letters")
          ELSE Value(toUpperCase(SubSeq(normalized, 1, 1))
                     \o toLowerCase(slice(normalized, 2)))

\* buildWarcraftLogsCharacterUrl: the URL, or the Error of a normalizer
buildWarcraftLogsCharacterUrl(region, realm, characterName) ==
  LET normalizedRegion == normalizeRegion(region)
      normalizedRealm == normalizeRealmSlug(realm)
      normalizedCharacterName == normalizeCharacterName(characterName)
  IN IF ~normalizedRegion.ok THEN normalizedRegion
     ELSE IF ~normalizedRealm.ok THEN normalizedRealm
     ELSE IF ~normalizedCharacterName.ok THEN normalizedCharacterName
     ELSE Value("https://www.warcraftlogs.com/character/"
                \o toLowerCase(normalizedRegion.value) \o "/" \o normalizedRealm.value
                \o "/" \o toLowerCase(normalizedCharacterName.value))

\* Timestamps.  new Date().toISOString() and SQLite DATETIME('now') print the
\* same instant (an hour count here) in two different formats.
NoTime == [fmt |-> Undefined, t |-> 0]
toISOString(t) == [fmt |-> "iso", t |-> t]
DATETIME(t) == [fmt |-> "sql", t |-> t]
getTime(stamp) == stamp.t

\* The host's offset from UTC in hours (the TZ of the Node process): UTC,
\* three hours east of it, or five hours west
VARIABLE tzOffset
HostOffsets == {0, 3, 0 - 5}

\* new Date(text): an ISO string ending in Z names its instant; the
\* 'YYYY-MM-DD HH:MM:SS' text SQLite stores (UTC, no zone designator) is
\* read by the engine's fallback parser as local time
NewDate(stamp) ==
  IF stamp.fmt = "sql" THEN [stamp EXCEPT !.t = stamp.t - tzOffset] ELSE stamp

\* ----------------------------------------------------------- request inputs
SlugUrl == "https://www.warcraftlogs.com/character/us/area-52/testchar"
IdUrl == "https://www.warcraftlogs.com/character/id/64213375"
BadUrl == "https://example.com/character/us/area-52/testchar"
\* A body without warcraftLogsUrl (or with a falsy one)
MissingUrl == ""
Urls == {SlugUrl, IdUrl, BadUrl, MissingUrl}

\* A thrown Error is the result of type "error" with its message
ParseError(url, message) ==
  [type |-> "error", region |-> Null, realm |-> Null, characterName |-> Null,
   characterId |-> Null, originalUrl |-> url, message |-> message]

SlugFormat ==
  "https://www.warcraftlogs.com/character/{region}/{realm}/{characterName}"
IdFormat == "https://www.warcraftlogs.com/character/id/{characterId}"

\* The part of parseWarcraftLogsCharacterUrl after the hostname check
ParsePath(trimmedUrl, pathname) ==
  LET pathParts == PathParts(pathname)
      part(i) == IF i <= Len(pathParts) THEN pathParts[i] ELSE ""
  IN
  IF Len(pathParts) < 2
  THEN ParseError(trimmedUrl, "Invalid URL structure. Expected format: "
                              \o SlugFormat \o " or " \o IdFormat)
  ELSE IF part(1) # "character"
  THEN ParseError(trimmedUrl, "Invalid URL path. Expected '/character/...', got: '/"
                              \o part(1) \o "/...'")
  ELSE IF part(2) = "id"
  THEN IF part(3) = ""
       THEN ParseError(trimmedUrl, "Character ID is missing from URL")
       ELSE IF ~(CharsOf(part(3)) \subseteq Digits)
       THEN ParseError(trimmedUrl, "Invalid character ID '" \o part(3)
                                   \o "'. Character ID must be numeric.")
       ELSE [type |-> "id", region |-> Null, realm |-> Null, characterName |-> Null,
             characterId |-> part(3), originalUrl |-> trimmedUrl, message |-> ""]
  ELSE IF Len(pathParts) < 4
  THEN ParseError(trimmedUrl, "Invalid URL structure. Expected format: " \o SlugFormat)
  ELSE
    LET normalizedRegion == normalizeRegion(part(2))
        normalizedRealm == normalizeRealmSlug(part(3))
        normalizedCharacterName == normalizeCharacterName(part(4))
        failed == IF ~normalizedRegion.ok THEN normalizedRegion
                  ELSE IF ~normalizedRealm.ok THEN normalizedRealm
                  ELSE normalizedCharacterName
    IN IF ~failed.ok
       THEN ParseError(trimmedUrl, "URL validation failed: " \o failed.message)
       ELSE [type |-> "slug", region |-> normalizedRegion.value,
             realm |-> normalizedRealm.value,
             characterName |-> normalizedCharacterName.value,
             characterId |-> Null, originalUrl |-> trimmedUrl, message |-> ""]

parseWarcraftLogsCharacterUrl(url) ==
  IF url = "" THEN ParseError(url, "URL is required and must be a string")
  ELSE
    LET trimmedUrl == trim(url)
        urlToParse == IF startsWith(trimmedUrl, "http") THEN trimmedUrl
                      ELSE "https://" \o trimmedUrl
        parsedUrl == NewURL(urlToParse)
    IN IF trimmedUrl = "" THEN ParseError(trimmedUrl, "URL cannot be empty")
       ELSE IF ~parsedUrl.ok
       THEN ParseError(trimmedUrl, "Invalid URL format: " \o trimmedUrl)
       ELSE IF ~Includes(parsedUrl.hostname, "warcraftlogs.com")
       THEN ParseError(trimmedUrl, "Invalid domain. Expected warcraftlogs.com, got: "
                                   \o parsedUrl.hostname)
       ELSE ParsePath(trimmedUrl, parsedUrl.pathname)

\* The route's local `parsed` for each request input
ParsedUrls == [url \in Urls |-> parseWarcraftLogsCharacterUrl(url)]

\* ------------------------------------------------------------ upstream data
\* What the upstream holds for the character; the rankings (hence the most
\* played spec) may differ from one fetch to the next.
Specs == {Null, "Frost"}

\* parseWarcraftLogsResponse: realm is the server's display name, region the
\* upper-cased region slug, classSpec the class with the spec when there is one
parseWarcraftLogsResponse(spec) ==
  [characterId |-> "64213375", characterName |-> "Testchar", realm |-> "Area 52",
   region |-> "US", class |-> "Mage", spec |-> spec,
   classSpec |-> IF spec # Null THEN "Mage " \o spec ELSE "Mage",
   avatarUrl |-> Null]

NoData == [characterId |-> Null, characterName |-> Null, realm |-> Null,
           region |-> Null, class |-> Null, spec |-> Null, classSpec |-> Null,
           avatarUrl |-> Null]

\* Errors thrown by the client: a code (absent codes read as 'UNKNOWN' in the
\* handler) and the message text
Err(code, message) == [code |-> code, message |-> message]
NoErr == Err(Null, "")
TokenErrors ==
  {Err("WCL_OAUTH_FAILED", "WCL OAuth failed: 401 Unauthorized"),
   Err("WCL_OAUTH_NETWORK_ERROR", "Network error connecting to Warcraft Logs OAuth")}
QueryErrors ==
  {Err("WCL_GRAPHQL_FAILED", "WCL GraphQL request failed: 500"),
   Err("WCL_GRAPHQL_ERROR", "WCL API error: Internal server error"),
   Err("WCL_CHARACTER_NOT_FOUND", "Character not found on Warcraft Logs"),
   Err("WCL_GRAPHQL_NETWORK_ERROR", "Network error connecting to Warcraft Logs API")}
\* fetchWarcraftLogsCharacterById attaches no code to its own errors
QueryByIdErrors ==
  {Err("UNKNOWN", "WCL API request failed: 500 Internal Server Error"),
   Err("UNKNOWN", "WCL API error: Internal server error"),
   Err("UNKNOWN", "Character with ID 64213375 not found on Warcraft Logs"),
   Err("UNKNOWN", "fetch failed")}
UniqueViolation ==
  Err("SQLITE_CONSTRAINT_UNIQUE", "UNIQUE constraint failed: character_enrichment_cache.region")
StorageError == Err("SQLITE_IOERR", "disk I/O error")

\* --------------------------------------------------------------- the cards
EmptyCard ==
  [warcraftLogsUrl |-> Undefined, characterName |-> Undefined, realm |-> Undefined,
   region |-> Undefined, class |-> Undefined, spec |-> Undefined,
   avatarUrl |-> Undefined, bestKillLatestSeason |-> Undefined,
   classSpec |-> Undefined, updatedAt |-> NoTime, fetchStatus |-> Undefined,
   errorMessage |-> Undefined, seasonConfigUpdatedAt |-> NoTime]

\* The card built from fresh upstream data (both branches of POST)
FreshPlayerCard(originalUrl, wclData, bestKill, t, seasonConfigUpdatedAt) ==
  [warcraftLogsUrl |-> originalUrl, characterName |-> wclData.characterName,
   realm |-> wclData.realm, region |-> wclData.region, class |-> wclData.class,
   spec |-> wclData.spec, avatarUrl |-> wclData.avatarUrl,
   bestKillLatestSeason |-> bestKill, classSpec |-> wclData.classSpec,
   updatedAt |-> toISOString(t), fetchStatus |-> "complete",
   errorMessage |-> Undefined, seasonConfigUpdatedAt |-> seasonConfigUpdatedAt]

buildPlayerCardFromCache(cached, warcraftLogsUrl, seasonConfigUpdatedAt) ==
  [warcraftLogsUrl |-> warcraftLogsUrl, characterName |-> cached.character_name,
   realm |-> cached.realm, region |-> cached.region,
   class |-> OrNull(cached.player_card.class),
   spec |-> OrNull(cached.player_card.spec),
   avatarUrl |-> OrNull(cached.player_card.avatarUrl),
   bestKillLatestSeason |-> OrNull(cached.player_card.bestKillLatestSeason),
   classSpec |-> OrNull(cached.player_card.classSpec),
   updatedAt |-> cached.updated_at,
   fetchStatus |-> IF OrNull(cached.fetch_status) = Null THEN "partial"
                   ELSE cached.fetch_status,
   errorMessage |-> IF OrNull(cached.error_message) = Null THEN Undefined
                    ELSE cached.error_message,
   seasonConfigUpdatedAt |-> seasonConfigUpdatedAt]

\* ------------------------------------------------------ the enrichment cache
Lookup(region, realm, character_name, season_key) ==
  [region |-> region, realm |-> realm, character_name |-> character_name,
   season_key |-> IF OrNull(season_key) = Null THEN "latest" ELSE season_key]

KeyOf(row) == Lookup(row.region, row.realm, row.character_name, row.season_key)

\* SELECT ... WHERE region = ? AND realm = ? AND character_name = ? AND season_key = ?
findCachedCharacter(table, lookup) == {row \in table : KeyOf(row) = lookup}

\* The optional fields of an update are all undefined
NothingSupplied(updates) ==
  /\ ~updates.has_player_card
  /\ updates.wcl_last_fetched_at = NoTime
  /\ updates.fetch_status = Undefined
  /\ updates.error_message = Undefined

\* UPDATE ... SET <supplied fields>, updated_at = DATETIME('now') WHERE <key>.
\* A field left undefined in `updates` is not touched; null is a value.  With
\* no field supplied the function returns before the UPDATE.
updateCacheEntry(table, lookup, updates, t) ==
  IF NothingSupplied(updates) THEN table ELSE
  {IF KeyOf(row) # lookup THEN row
   ELSE [row EXCEPT
     !.player_card = IF updates.has_player_card THEN updates.player_card ELSE @,
     !.wcl_last_fetched_at = IF updates.wcl_last_fetched_at # NoTime
                             THEN updates.wcl_last_fetched_at ELSE @,
     !.fetch_status = IF updates.fetch_status # Undefined THEN updates.fetch_status ELSE @,
     !.error_message = IF updates.error_message # Undefined THEN updates.error_message ELSE @,
     !.updated_at = DATETIME(t)] : row \in table}

\* INSERT: the row createCacheEntry writes (player_card || {}, status || 'partial')
createCacheEntry(data, t) ==
  [region |-> data.region, realm |-> data.realm,
   character_name |-> data.character_name,
   season_key |-> IF OrNull(data.season_key) = Null THEN "latest" ELSE data.season_key,
   player_card |-> IF data.has_player_card THEN data.player_card ELSE EmptyCard,
   wcl_last_fetched_at |-> data.wcl_last_fetched_at,
   fetch_status |-> IF OrNull(data.fetch_status) = Null THEN "partial" ELSE data.fetch_status,
   error_message |-> OrNull(data.error_message),
   updated_at |-> DATETIME(t)]

\* A table without the UNIQUE constraint
ViolatesUnique_Never(table, row) == FALSE

\* UNIQUE(region, realm, character_name, season_key)
ViolatesUnique(table, row) == \E other \in table : KeyOf(other) = KeyOf(row)

\* A staleness test that halves the threshold
isCacheStale_HalfTtl(cache, maxAgeHours, t) ==
  \/ cache = {}
  \/ \E row \in cache : t - getTime(NewDate(row.updated_at)) >= maxAgeHours \div 2

\* isCacheStale(cache, maxAgeHours), `cache` a set holding at most one row
isCacheStale(cache, maxAgeHours, t) ==
  \/ cache = {}
  \/ \E row \in cache : t - getTime(NewDate(row.updated_at)) >= maxAgeHours

\* The argument of the two upsertCacheEntry calls of POST
CompleteData(lookup, playerCard, t) ==
  [region |-> lookup.region, realm |-> lookup.realm,
   character_name |-> lookup.character_name, season_key |-> lookup.season_key,
   has_player_card |-> TRUE, player_card |-> playerCard,
   wcl_last_fetched_at |-> toISOString(t), fetch_status |-> "complete",
   error_message |-> Null]

FailedData(lookup, errorMessage) ==
  [region |-> lookup.region, realm |-> lookup.realm,
   character_name |-> lookup.character_name, season_key |-> lookup.season_key,
   has_player_card |-> FALSE, player_card |-> EmptyCard,
   wcl_last_fetched_at |-> NoTime, fetch_status |-> "failed",
   error_message |-> errorMessage]

\* ------------------------------------------------------------------- state
VARIABLES
  configured,    \* WCL_CLIENT_ID and WCL_CLIENT_SECRET are both set
  now,           \* wall clock, in hours
  cache,         \* rows of character_enrichment_cache
  dbFaults,      \* storage statements that have failed so far
  started,       \* enrich requests received so far
  req,           \* per request: position in POST and its locals
  season,        \* rows of season_config
  adm,           \* per administrator call: position and locals
  seasonOps,     \* season-config calls made so far
  ops,           \* per character-cache route call: position and locals
  cacheOps,      \* character-cache route calls made so far
  call           \* the last library function applied on its own, with its result

vars == <<configured, now, cache, dbFaults, started, req, season, adm, seasonOps,
          ops, cacheOps, tzOffset, call>>
libVars == <<tzOffset, call>>
cacheOpVars == <<ops, cacheOps>>
enrichVars == <<configured, now, cache, dbFaults, started, req>>
seasonVars == <<season, adm, seasonOps>>

isWarcraftLogsConfigured == configured

NoCall == [fn |-> "none"]

NoResp == [status |-> "none", message |-> "", data |-> {}]

IdleReq ==
  [pc |-> "idle", url |-> "", forceRefresh |-> FALSE, seasonKey |-> "latest",
   activeSeasonConfig |-> {}, cachedData |-> {}, wclData |-> NoData,
   playerCard |-> EmptyCard, existing |-> FALSE, err |-> NoErr, resp |-> NoResp,
   tokens |-> 0, queries |-> 0, writes |-> 0, fetch |-> "none",
   rowAtFail |-> FALSE, entryAtStart |-> "none",
   parsed |-> ParsedUrls[MissingUrl]]

IdleAdm == [pc |-> "idle", op |-> "none", id |-> 0, is_active |-> Undefined,
            tier_name |-> Undefined, existing |-> {}, hadActive |-> {},
            activeAfter |-> {}, result |-> "none"]

\* Requests take the first free handler slot
Before(a, b) == a = "r1" /\ b = "r2"

\* A storage statement may fail while the fault budget lasts
FaultChoices == IF dbFaults < MaxDbFaults THEN {FALSE, TRUE} ELSE {FALSE}
Count(f) == IF f THEN 1 ELSE 0

\* SELECT * FROM season_config WHERE is_active = 1 LIMIT 1
getActiveSeasonConfig(table) ==
  IF \E row \in table : row.is_active
  THEN {{row} : row \in {x \in table : x.is_active}}
  ELSE {{}}

seasonConfigUpdatedAt(config) ==
  IF config = {} THEN NoTime ELSE (CHOOSE row \in config : TRUE).updated_at

\* The key the request uses for the cache, once known
CacheKey(q) ==
  LET parsed == q.parsed IN
  IF parsed.type = "id"
  THEN Lookup(q.wclData.region, q.wclData.realm, q.wclData.characterName, q.seasonKey)
  ELSE Lookup(parsed.region, parsed.realm, parsed.characterName, q.seasonKey)

\* The key under which a request of this form caches the character it names
\* (for a numeric id, the key built from what the upstream returns for it)
IdentityKey(q) ==
  [CacheKey(q) EXCEPT !.realm =
     IF q.parsed.type = "id"
     THEN parseWarcraftLogsResponse(Null).realm ELSE @,
   !.region =
     IF q.parsed.type = "id"
     THEN parseWarcraftLogsResponse(Null).region ELSE @,
   !.character_name =
     IF q.parsed.type = "id"
     THEN parseWarcraftLogsResponse(Null).characterName ELSE @]

\* The entry a request finds under its key: missing, fresh or stale
EntryState(table, q, t) ==
  LET found == findCachedCharacter(table, IdentityKey(q)) IN
  IF found = {} THEN "missing"
  ELSE IF \E row \in found : t - getTime(row.updated_at) < CACHE_TTL_HOURS
       THEN "fresh" ELSE "stale"

successResponse(q, data, message) ==
  [q EXCEPT !.pc = "done",
            !.resp = [status |-> "OK", message |-> message, data |-> {data}]]

\* What a handler passes to errorResponse: a plain string or an Error object
Text(message) == [isError |-> FALSE, message |-> message]
NewError(message) == [isError |-> TRUE, message |-> message]

\* handleError for a value that is no AppError and carries no `code`: the
\* message of an Error object is kept, anything else reads as unexpected
handleError(error) ==
  [statusCode |-> "INTERNAL_SERVER_ERROR",
   message |-> IF error.isError THEN error.message
               ELSE "An unexpected error occurred"]

\* errorResponse(error, statusCode), the status always supplied by the caller
errorResponse(q, error, statusCode) ==
  [q EXCEPT !.pc = "done",
            !.resp = [status |-> statusCode, message |-> handleError(error).message,
                      data |-> {}]]

NotFoundSlugMessage ==
  "Character not found on Warcraft Logs. The character may have been deleted, transferred, or doesn't exist. Please verify the character name, realm, and region."
NotFoundIdMessage ==
  "Character not found on Warcraft Logs. The character may have been deleted, transferred, or the URL is outdated. Please provide an updated Warcraft Logs character URL."

\* The error mapping shared by the two catch blocks of POST; only the
\* character-not-found text differs between them
ErrorMessageFor(e, type) ==
  IF e.code = "WCL_OAUTH_FAILED" THEN "Could not authenticate with Warcraft Logs"
  ELSE IF e.code \in {"WCL_GRAPHQL_FAILED", "WCL_GRAPHQL_ERROR"}
       THEN "Warcraft Logs API request failed"
  ELSE IF e.code = "WCL_CHARACTER_NOT_FOUND" \/ Includes(e.message, "not found")
       THEN IF type = "id" THEN NotFoundIdMessage ELSE NotFoundSlugMessage
  ELSE "Warcraft Logs API error: " \o e.message

\* A catch block that answers NOT_FOUND when the character is not found
IdCatch_NotFound404(q, e) ==
  errorResponse([q EXCEPT !.err = e], NewError(ErrorMessageFor(e, "id")),
                IF Includes(e.message, "not found") THEN "NOT_FOUND" ELSE "BAD_GATEWAY")

\* catch (idFetchError): always a BAD_GATEWAY response
IdCatch(q, e) ==
  errorResponse([q EXCEPT !.err = e], NewError(ErrorMessageFor(e, "id")), "BAD_GATEWAY")

\* catch (wclError): with cached data, start the 'failed' write-back (its
\* SELECT runs at once; a storage failure there is logged and skipped);
\* without, a BAD_GATEWAY response
SlugCatch(q, e, table, fault) ==
  IF q.cachedData # {}
  THEN IF fault
       THEN successResponse([q EXCEPT !.err = e],
              [buildPlayerCardFromCache(CHOOSE c \in q.cachedData : TRUE, q.url,
                                        seasonConfigUpdatedAt(q.activeSeasonConfig))
               EXCEPT !.errorMessage =
                 "Failed to fetch fresh data: " \o e.message \o ". Returning cached data."],
              "Returning cached data (fetch failed)")
       ELSE [q EXCEPT !.pc = "failWrite", !.err = e,
                      !.existing = (findCachedCharacter(table, CacheKey(q)) # {})]
  ELSE errorResponse([q EXCEPT !.err = e], NewError(ErrorMessageFor(e, "slug")), "BAD_GATEWAY")

\* After the character data is in hand and the best kill is settled: build
\* the card and start upsertCacheEntry, whose SELECT runs at once
BuildAndStartWrite(q, bestKill, table, fault) ==
  LET card == FreshPlayerCard(q.url, q.wclData, bestKill, now,
                              seasonConfigUpdatedAt(q.activeSeasonConfig))
      q1 == [q EXCEPT !.playerCard = card]
  IN IF fault
     THEN IF q.parsed.type = "id"
          THEN successResponse(q1, card, "Player card enriched successfully")
          ELSE SlugCatch(q1, StorageError, table, FALSE)
     ELSE [q1 EXCEPT !.pc = "write",
                     !.existing = (findCachedCharacter(table, CacheKey(q)) # {})]

\* A best-kill step that throws when there is no active season config
StartBestKill_Throws(q, table, fault) ==
  IF q.activeSeasonConfig = {}
  THEN IF q.parsed.type = "id"
       THEN IdCatch(q, Err("UNKNOWN", "No active season config"))
       ELSE SlugCatch(q, Err("UNKNOWN", "No active season config"), table, fault)
  ELSE [q EXCEPT !.pc = "bkToken"]

\* fetchBestBossKill: no active season config means no upstream call
StartBestKill(q, table, fault) ==
  IF q.activeSeasonConfig = {}
  THEN BuildAndStartWrite(q, Null, table, fault)
  ELSE [q EXCEPT !.pc = "bkToken"]

BestKills == {Null, "Mythic Dimensius"}

MarkFailed(q) ==
  [q EXCEPT !.fetch = "failed",
            !.rowAtFail = (findCachedCharacter(cache, IdentityKey(q)) # {})]

\* ----------------------------------------------- POST /api/enrich-player-card
\* Entry: the credentials pre-flight check and the storage connectivity probe
Start(r) ==
  /\ req[r].pc = "idle"
  /\ started < MaxStarts
  /\ \A other \in Reqs : req[other].pc = "idle" => ~Before(other, r)
  /\ \E url \in Urls, forceRefresh \in BOOLEAN, fault \in FaultChoices :
       LET q0 == [IdleReq EXCEPT !.url = url, !.forceRefresh = forceRefresh,
                                 !.parsed = ParsedUrls[url]]
           q == [q0 EXCEPT !.entryAtStart =
                   IF q0.parsed.type = "error" THEN "none"
                   ELSE EntryState(cache, q0, now)]
       IN
       /\ req' = [req EXCEPT ![r] =
            IF ~isWarcraftLogsConfigured
            THEN errorResponse(q,
                   Text("Warcraft Logs API credentials not configured. Please contact administrator."),
                   "SERVICE_UNAVAILABLE")
            ELSE IF fault
            THEN errorResponse(q, Text("Database unavailable. Please try again later."),
                               "SERVICE_UNAVAILABLE")
            ELSE [q EXCEPT !.pc = "loadConfig"]]
       /\ dbFaults' = dbFaults + (IF isWarcraftLogsConfigured THEN Count(fault) ELSE 0)
  /\ started' = started + 1
  /\ UNCHANGED <<configured, now, cache, seasonVars, cacheOpVars, libVars>>

\* The slug branch from the cache lookup to the decision to fetch
SlugLookup(q, fault) ==
  IF ~q.forceRefresh /\ fault
  THEN errorResponse(q, Text("An unexpected server error occurred. Please try again later."),
                     "INTERNAL_SERVER_ERROR")
  ELSE
    LET cachedData == IF q.forceRefresh THEN {}
                      ELSE findCachedCharacter(cache, CacheKey(q))
        q1 == [q EXCEPT !.cachedData = cachedData]
        scua == seasonConfigUpdatedAt(q.activeSeasonConfig)
    IN IF cachedData # {} /\ ~isCacheStale(cachedData, CACHE_TTL_HOURS, now)
       THEN successResponse(q1,
              buildPlayerCardFromCache(CHOOSE c \in cachedData : TRUE, q.url, scua),
              "Player card returned from cache")
       ELSE IF ~isWarcraftLogsConfigured
       THEN IF cachedData # {}
            THEN successResponse(q1,
                   buildPlayerCardFromCache(CHOOSE c \in cachedData : TRUE, q.url, scua),
                   "WCL API not configured. Returning stale cached data.")
            ELSE errorResponse(q1,
                   Text("Warcraft Logs API is not configured and no cached data is available"),
                   "SERVICE_UNAVAILABLE")
       ELSE [q1 EXCEPT !.pc = "token"]

\* Load the active season config (a failure is non-fatal), validate and parse
\* the reference, then branch on its form
LoadConfig(r) ==
  /\ req[r].pc = "loadConfig"
  /\ \E f1 \in FaultChoices, f2 \in FaultChoices :
       /\ dbFaults + Count(f1) + Count(f2) <= MaxDbFaults
       /\ \E config \in (IF f1 THEN {{}} ELSE getActiveSeasonConfig(season)) :
            LET q == [req[r] EXCEPT !.activeSeasonConfig = config]
                parsed == q.parsed
                lookupRuns == parsed.type = "slug" /\ ~q.forceRefresh
            IN /\ (f2 => lookupRuns)
               /\ req' = [req EXCEPT ![r] =
                    IF q.url = MissingUrl
                    THEN errorResponse(q,
                           Text("warcraftLogsUrl is required and must be a string"),
                           "BAD_REQUEST")
                    ELSE IF parsed.type = "error"
                    THEN errorResponse(q, Text("Invalid Warcraft Logs URL: Invalid domain"),
                                       "BAD_REQUEST")
                    ELSE IF parsed.type = "id"
                    THEN IF ~isWarcraftLogsConfigured
                         THEN errorResponse(q,
                                Text("Warcraft Logs API is not configured. Cannot resolve character ID."),
                                "SERVICE_UNAVAILABLE")
                         ELSE [q EXCEPT !.pc = "token"]
                    ELSE SlugLookup(q, f2)]
               /\ dbFaults' = dbFaults + Count(f1) + Count(f2)
  /\ UNCHANGED <<configured, now, cache, started, seasonVars, cacheOpVars, libVars>>

\* A character fetch that asks for a token again after a failed token request
Token_RetriesOnFailure(r) ==
  /\ req[r].pc = "token"
  /\ LET q == [req[r] EXCEPT !.tokens = @ + 1] IN
     \/ req' = [req EXCEPT ![r] = [q EXCEPT !.pc = "query"]]
     \/ /\ q.tokens <= 2
        /\ req' = [req EXCEPT ![r] = MarkFailed(q)]
     \/ /\ q.tokens > 2
        /\ \E e \in TokenErrors : req' = [req EXCEPT ![r] = IdCatch(MarkFailed(q), e)]
  /\ UNCHANGED <<configured, now, cache, dbFaults, started, seasonVars, cacheOpVars, libVars>>

\* getWarcraftLogsToken for the character fetch answers
Token(r) ==
  /\ req[r].pc = "token"
  /\ LET q == [req[r] EXCEPT !.tokens = @ + 1]
         isId == q.parsed.type = "id"
     IN \/ /\ req' = [req EXCEPT ![r] = [q EXCEPT !.pc = "query"]]
           /\ UNCHANGED dbFaults
        \/ \E e \in TokenErrors, fault \in FaultChoices :
             /\ (fault => ~isId /\ q.cachedData # {})
             /\ req' = [req EXCEPT ![r] =
                  IF isId THEN IdCatch(MarkFailed(q), e)
                  ELSE SlugCatch(MarkFailed(q), e, cache, fault)]
             /\ dbFaults' = dbFaults + Count(fault)
  /\ UNCHANGED <<configured, now, cache, started, seasonVars, cacheOpVars, libVars>>

\* The numeric-id branch once the character is resolved: cache lookup (a
\* storage failure reads as a miss), fresh hit, or on to the best kill
IdLookup(q, f1, f2) ==
  LET cachedData == IF q.forceRefresh \/ f1 THEN {}
                    ELSE findCachedCharacter(cache, CacheKey(q))
      q1 == [q EXCEPT !.cachedData = cachedData]
  IN IF cachedData # {} /\ ~isCacheStale(cachedData, CACHE_TTL_HOURS, now)
     THEN successResponse(q1,
            buildPlayerCardFromCache(CHOOSE c \in cachedData : TRUE, q.url,
                                     seasonConfigUpdatedAt(q.activeSeasonConfig)),
            "")
     ELSE StartBestKill(q1, cache, f2)

\* The character query answers
Query(r) ==
  /\ req[r].pc = "query"
  /\ LET q == [req[r] EXCEPT !.queries = @ + 1]
         isId == q.parsed.type = "id"
     IN \/ \E spec \in Specs, f1 \in FaultChoices, f2 \in FaultChoices :
             LET q1 == [q EXCEPT !.wclData = parseWarcraftLogsResponse(spec),
                                 !.fetch = "ok"]
                 next == IF isId THEN IdLookup(q1, f1, f2)
                         ELSE StartBestKill(q1, cache, f2)
             IN /\ dbFaults + Count(f1) + Count(f2) <= MaxDbFaults
                /\ (f1 => isId /\ ~q.forceRefresh)
                /\ (f2 => next # (IF isId THEN IdLookup(q1, f1, FALSE)
                                  ELSE StartBestKill(q1, cache, FALSE)))
                /\ req' = [req EXCEPT ![r] = next]
                /\ dbFaults' = dbFaults + Count(f1) + Count(f2)
        \/ \E e \in (IF isId THEN QueryByIdErrors ELSE QueryErrors),
              fault \in FaultChoices :
             /\ (fault => ~isId /\ q.cachedData # {})
             /\ req' = [req EXCEPT ![r] =
                  IF isId THEN IdCatch(MarkFailed(q), e)
                  ELSE SlugCatch(MarkFailed(q), e, cache, fault)]
             /\ dbFaults' = dbFaults + Count(fault)
  /\ UNCHANGED <<configured, now, cache, started, seasonVars, cacheOpVars, libVars>>

\* A progression call that sends its query under the token the character
\* fetch acquired instead of acquiring its own
BkToken_ReusesToken(r) ==
  /\ req[r].pc = "bkToken"
  /\ req' = [req EXCEPT ![r] = [req[r] EXCEPT !.pc = "bkQuery"]]
  /\ UNCHANGED <<configured, now, cache, dbFaults, started, seasonVars, cacheOpVars, libVars>>

\* fetchCharacterZoneProgression: its token request answers; a failure is
\* swallowed and leaves the best kill null
BkToken(r) ==
  /\ req[r].pc = "bkToken"
  /\ LET q == [req[r] EXCEPT !.tokens = @ + 1] IN
     \/ /\ req' = [req EXCEPT ![r] = [q EXCEPT !.pc = "bkQuery"]]
        /\ UNCHANGED dbFaults
     \/ \E fault \in FaultChoices :
          /\ req' = [req EXCEPT ![r] = BuildAndStartWrite(q, Null, cache, fault)]
          /\ dbFaults' = dbFaults + Count(fault)
  /\ UNCHANGED <<configured, now, cache, started, seasonVars, cacheOpVars, libVars>>

\* fetchCharacterZoneProgression: the progression query answers (the best
\* kill computed from it, or null on any failure)
BkQuery(r) ==
  /\ req[r].pc = "bkQuery"
  /\ LET q == [req[r] EXCEPT !.queries = @ + 1] IN
     \E bestKill \in BestKills, fault \in FaultChoices :
       /\ req' = [req EXCEPT ![r] = BuildAndStartWrite(q, bestKill, cache, fault)]
       /\ dbFaults' = dbFaults + Count(fault)
  /\ UNCHANGED <<configured, now, cache, started, seasonVars, cacheOpVars, libVars>>

\* The response of the fetch-failure branch that holds cached data
StaleResponse(q) ==
  successResponse(q,
    [buildPlayerCardFromCache(CHOOSE c \in q.cachedData : TRUE, q.url,
                              seasonConfigUpdatedAt(q.activeSeasonConfig))
     EXCEPT !.errorMessage =
       "Failed to fetch fresh data: " \o q.err.message \o ". Returning cached data."],
    "Returning cached data (fetch failed)")

\* An upsert that inserts when the row is absent and otherwise does nothing
upsertCacheEntry_InsertOnly(table, existing, data, t) ==
  IF existing
  THEN [table |-> table, err |-> NoErr]
  ELSE IF ViolatesUnique(table, createCacheEntry(data, t))
       THEN [table |-> table, err |-> UniqueViolation]
       ELSE [table |-> table \cup {createCacheEntry(data, t)}, err |-> NoErr]

\* upsertCacheEntry, second statement: UPDATE when its SELECT found a row,
\* INSERT otherwise.  The result is the table, or the error thrown.
upsertCacheEntry(table, existing, data, t) ==
  IF existing
  THEN [table |-> updateCacheEntry(table, KeyOf(data), data, t), err |-> NoErr]
  ELSE IF ViolatesUnique(table, createCacheEntry(data, t))
       THEN [table |-> table, err |-> UniqueViolation]
       ELSE [table |-> table \cup {createCacheEntry(data, t)}, err |-> NoErr]

\* Write-back of the fresh card (status 'complete'), then the response.  The
\* slug branch has the write inside the fetch's try block; the id branch
\* logs a storage error and carries on.
Write(r) ==
  /\ req[r].pc = "write"
  /\ \E fault \in FaultChoices :
       LET q == req[r]
           isId == q.parsed.type = "id"
           data == CompleteData(CacheKey(q), q.playerCard, now)
           res == IF fault THEN [table |-> cache, err |-> StorageError]
                  ELSE upsertCacheEntry(cache, q.existing, data, now)
           q1 == [q EXCEPT !.writes = @ + 1]
       IN /\ cache' = res.table
          /\ req' = [req EXCEPT ![r] =
               IF res.err = NoErr \/ isId
               THEN successResponse(q1, q.playerCard, "Player card enriched successfully")
               ELSE SlugCatch(q1, res.err, res.table, FALSE)]
          /\ dbFaults' = dbFaults + Count(fault)
  /\ UNCHANGED <<configured, now, started, seasonVars, cacheOpVars, libVars>>

\* Write-back of the failure (status 'failed' and the error text), then the
\* stale card; a storage error here is logged and ignored
FailWrite(r) ==
  /\ req[r].pc = "failWrite"
  /\ \E fault \in FaultChoices :
       LET q == req[r]
           data == FailedData(CacheKey(q), q.err.message)
           res == IF fault THEN [table |-> cache, err |-> StorageError]
                  ELSE upsertCacheEntry(cache, q.existing, data, now)
           q1 == [q EXCEPT !.writes = @ + 1]
       IN /\ cache' = res.table
          /\ req' = [req EXCEPT ![r] = StaleResponse(q1)]
          /\ dbFaults' = dbFaults + Count(fault)
  /\ UNCHANGED <<configured, now, started, seasonVars, cacheOpVars, libVars>>

\* The response has been sent; the handler's locals are gone
Finish(r) ==
  /\ req[r].pc = "done"
  /\ req' = [req EXCEPT ![r] = IdleReq]
  /\ UNCHANGED <<configured, now, cache, dbFaults, started, seasonVars, cacheOpVars, libVars>>

\* Time passes
Tick ==
  \E d \in {CACHE_TTL_HOURS \div 2, CACHE_TTL_HOURS} :
    /\ now + d <= MaxTime
    /\ now' = now + d
  /\ UNCHANGED <<configured, cache, dbFaults, started, req, seasonVars, cacheOpVars, libVars>>

\* The process is restarted with the credentials set or unset in its
\* environment (process.env is read on each isWarcraftLogsConfigured call)
SetCredentials ==
  /\ \A r \in Reqs : req[r].pc = "idle"
  /\ configured' = ~configured
  /\ UNCHANGED <<now, cache, dbFaults, started, req, seasonVars, cacheOpVars, libVars>>

\* A row left by an earlier successful slug-form enrichment
SeedRow ==
  createCacheEntry(
    CompleteData(Lookup("US", "area-52", "Testchar", "latest"),
                 FreshPlayerCard(SlugUrl, parseWarcraftLogsResponse("Frost"), Null, 0, NoTime),
                 0), 0)

ActiveSeason ==
  [id |-> 1, tier_name |-> "Manaforge Omega", is_active |-> TRUE,
   updated_at |-> DATETIME(0)]

\* ---------------------------------------------------- season configuration
ActiveIds(table) == {row.id : row \in {x \in table : x.is_active}}

\* UPDATE season_config SET is_active = 0 WHERE is_active = 1 [AND id != ?]
Deactivate(table, exceptIds) ==
  {IF row.is_active /\ row.id \notin exceptIds
   THEN [row EXCEPT !.is_active = FALSE] ELSE row : row \in table}

\* createSeasonConfig, first statement: with is_active, deactivate all the
\* others and go on to the INSERT; without, the INSERT is the first statement
CreateStart(a) ==
  /\ adm[a].pc = "idle"
  /\ seasonOps < MaxSeasonOps
  /\ seasonOps' = seasonOps + 1
  /\ \E is_active \in {"true", "false"}, fault \in FaultChoices :
       LET c == [IdleAdm EXCEPT !.op = "create", !.id = seasonOps + 2,
                                !.is_active = is_active,
                                !.tier_name = "Manaforge Omega",
                                !.hadActive = ActiveIds(season)]
       IN /\ dbFaults' = dbFaults + Count(fault)
          /\ IF fault
             THEN /\ season' = season
                  /\ adm' = [adm EXCEPT ![a] =
                       [c EXCEPT !.pc = "done", !.result = "error",
                                 !.activeAfter = ActiveIds(season)]]
             ELSE IF is_active = "true"
             THEN /\ season' = Deactivate(season, {})
                  /\ adm' = [adm EXCEPT ![a] = [c EXCEPT !.pc = "insert"]]
             ELSE /\ season' = season \cup
                       {[id |-> c.id, tier_name |-> c.tier_name, is_active |-> FALSE,
                         updated_at |-> DATETIME(now)]}
                  /\ adm' = [adm EXCEPT ![a] =
                       [c EXCEPT !.pc = "done", !.result = "ok",
                                 !.activeAfter = ActiveIds(season')]]
  /\ UNCHANGED <<configured, now, cache, started, req, cacheOpVars, libVars>>

\* createSeasonConfig with is_active: the INSERT of the new active row
CreateInsert(a) ==
  /\ adm[a].pc = "insert"
  /\ \E fault \in FaultChoices :
       /\ dbFaults' = dbFaults + Count(fault)
       /\ season' = IF fault THEN season
                    ELSE season \cup
                      {[id |-> adm[a].id, tier_name |-> adm[a].tier_name,
                        is_active |-> TRUE, updated_at |-> DATETIME(now)]}
       /\ adm' = [adm EXCEPT ![a] =
            [@ EXCEPT !.pc = "done",
                      !.result = IF fault THEN "insertFailed" ELSE "ok",
                      !.activeAfter = ActiveIds(season')]]
  /\ UNCHANGED <<configured, now, cache, started, req, seasonOps, cacheOpVars, libVars>>

\* updateSeasonConfig, first statement: SELECT the row by id
UpdateStart(a) ==
  /\ adm[a].pc = "idle"
  /\ seasonOps < MaxSeasonOps
  /\ seasonOps' = seasonOps + 1
  /\ \E id \in {row.id : row \in season} \cup {0},
        is_active \in {"true", "false", Undefined},
        tier_name \in {Undefined, "Renamed"}, fault \in FaultChoices :
       /\ dbFaults' = dbFaults + Count(fault)
       /\ adm' = [adm EXCEPT ![a] =
            IF fault
            THEN [IdleAdm EXCEPT !.op = "update", !.id = id, !.pc = "done",
                                 !.result = "error",
                                 !.activeAfter = ActiveIds(season)]
            ELSE [IdleAdm EXCEPT !.op = "update", !.id = id, !.pc = "selected",
                                 !.is_active = is_active, !.tier_name = tier_name,
                                 !.existing = {row \in season : row.id = id},
                                 !.hadActive = ActiveIds(season)]]
  /\ UNCHANGED <<configured, now, cache, started, req, season, cacheOpVars, libVars>>

\* UPDATE season_config SET <supplied fields>, updated_at = ... WHERE id = ?
UpdateRow(table, c) ==
  {IF row.id # c.id THEN row
   ELSE [row EXCEPT
     !.tier_name = IF c.tier_name # Undefined THEN c.tier_name ELSE @,
     !.is_active = IF c.is_active # Undefined THEN (c.is_active = "true") ELSE @,
     !.updated_at = DATETIME(now)] : row \in table}

\* updateSeasonConfig after the SELECT: a missing row throws; with is_active,
\* deactivate the others and go on to the row's UPDATE; without, the row's
\* UPDATE (if any field is supplied) follows at once
UpdateCheck(a) ==
  /\ adm[a].pc = "selected"
  /\ LET c == adm[a] IN
     \E fault \in FaultChoices :
       /\ (fault => c.existing # {}
                    /\ (c.is_active # Undefined \/ c.tier_name # Undefined))
       /\ dbFaults' = dbFaults + Count(fault)
       /\ season' =
            IF c.existing = {} \/ fault THEN season
            ELSE IF c.is_active = "true" THEN Deactivate(season, {c.id})
            ELSE IF c.is_active = Undefined /\ c.tier_name = Undefined THEN season
            ELSE UpdateRow(season, c)
       /\ adm' = [adm EXCEPT ![a] =
            IF c.existing = {} \/ fault
            THEN [c EXCEPT !.pc = "done", !.result = "error",
                           !.activeAfter = ActiveIds(season')]
            ELSE IF c.is_active = "true" THEN [c EXCEPT !.pc = "update"]
            ELSE [c EXCEPT !.pc = "done", !.result = "ok",
                           !.activeAfter = ActiveIds(season')]]
  /\ UNCHANGED <<configured, now, cache, started, req, seasonOps, cacheOpVars, libVars>>

\* updateSeasonConfig with is_active: the UPDATE of the row itself
UpdateWrite(a) ==
  /\ adm[a].pc = "update"
  /\ \E fault \in FaultChoices :
       /\ dbFaults' = dbFaults + Count(fault)
       /\ season' = IF fault THEN season ELSE UpdateRow(season, adm[a])
       /\ adm' = [adm EXCEPT ![a] =
            [@ EXCEPT !.pc = "done",
                      !.result = IF fault THEN "updateFailed" ELSE "ok",
                      !.activeAfter = ActiveIds(season')]]
  /\ UNCHANGED <<configured, now, cache, started, req, seasonOps, cacheOpVars, libVars>>

\* The call has returned
AdmFinish(a) ==
  /\ adm[a].pc = "done"
  /\ adm' = [adm EXCEPT ![a] = IdleAdm]
  /\ UNCHANGED <<enrichVars, season, seasonOps, cacheOpVars, libVars>>

\* ------------------------------------------------- the character-cache routes
\* DELETE ... WHERE region = ? AND realm = ? AND character_name = ? AND season_key = ?
deleteCacheEntry_AllSeasons(table, lookup) ==
  {row \in table : ~(/\ row.region = lookup.region /\ row.realm = lookup.realm
                     /\ row.character_name = lookup.character_name)}

deleteCacheEntry(table, lookup) == {row \in table : KeyOf(row) # lookup}

\* The query parameters / body fields the two routes are called with: the
\* character of the enrich requests, with or without realm and seasonKey
RouteRealms == {"area-52", ""}
RouteSeasons == {Undefined, "tww-s2"}
\* The optional body fields of the upsert route: none, or a fetchStatus
RouteStatuses == {Undefined, "partial"}

UpsertData(lookup, fetchStatus) ==
  [region |-> lookup.region, realm |-> lookup.realm,
   character_name |-> lookup.character_name, season_key |-> lookup.season_key,
   has_player_card |-> FALSE, player_card |-> EmptyCard,
   wcl_last_fetched_at |-> NoTime, fetch_status |-> fetchStatus,
   error_message |-> Undefined]

IdleOp ==
  [pc |-> "idle", kind |-> "none", lookup |-> Lookup("", "", "", Undefined),
   data |-> UpsertData(Lookup("", "", "", Undefined), Undefined),
   existing |-> FALSE, result |-> "none"]

\* Route calls take the first free handler slot
FirstFree(a, b) == a = "o1" /\ b = "o2"

\* POST /api/character-cache/upsert: validation, then the SELECT of
\* upsertCacheEntry
UpsertStart(o) ==
  /\ ops[o].pc = "idle"
  /\ cacheOps < MaxCacheOps
  /\ \A other \in Callers : ops[other].pc = "idle" => ~FirstFree(other, o)
  /\ cacheOps' = cacheOps + 1
  /\ \E realm \in RouteRealms, seasonKey \in RouteSeasons,
        fetchStatus \in RouteStatuses, fault \in FaultChoices :
       LET lookup == Lookup("US", realm, "Testchar", seasonKey)
           c == [IdleOp EXCEPT !.kind = "upsert", !.lookup = lookup,
                               !.data = UpsertData(lookup, fetchStatus)]
       IN /\ (fault => realm # "")
          /\ dbFaults' = dbFaults + Count(fault)
          /\ ops' = [ops EXCEPT ![o] =
               IF realm = "" THEN [c EXCEPT !.pc = "done", !.result = "badRequest"]
               ELSE IF fault THEN [c EXCEPT !.pc = "done", !.result = "error"]
               ELSE [c EXCEPT !.pc = "write",
                              !.existing = (findCachedCharacter(cache, lookup) # {})]]
  /\ UNCHANGED <<configured, now, cache, started, req, seasonVars, libVars>>

\* upsertCacheEntry's UPDATE or INSERT for the route; a throw is caught by
\* the route
UpsertWrite(o) ==
  /\ ops[o].pc = "write"
  /\ \E fault \in FaultChoices :
       LET res == IF fault THEN [table |-> cache, err |-> StorageError]
                  ELSE upsertCacheEntry(cache, ops[o].existing, ops[o].data, now)
       IN /\ cache' = res.table
          /\ dbFaults' = dbFaults + Count(fault)
          /\ ops' = [ops EXCEPT ![o] =
               [@ EXCEPT !.pc = "done",
                         !.result = IF res.err = NoErr THEN "ok" ELSE "error"]]
  /\ UNCHANGED <<configured, now, started, req, seasonVars, cacheOps, libVars>>

\* DELETE /api/character-cache: validation, then deleteCacheEntry, whose
\* result is whether a row was removed
DeleteCall(o) ==
  /\ ops[o].pc = "idle"
  /\ cacheOps < MaxCacheOps
  /\ \A other \in Callers : ops[other].pc = "idle" => ~FirstFree(other, o)
  /\ cacheOps' = cacheOps + 1
  /\ \E realm \in RouteRealms, seasonKey \in RouteSeasons, fault \in FaultChoices :
       LET lookup == Lookup("US", realm, "Testchar", seasonKey)
           c == [IdleOp EXCEPT !.kind = "delete", !.lookup = lookup, !.pc = "done"]
       IN /\ (fault => realm # "")
          /\ dbFaults' = dbFaults + Count(fault)
          /\ cache' = IF realm = "" \/ fault THEN cache
                      ELSE deleteCacheEntry(cache, lookup)
          /\ ops' = [ops EXCEPT ![o] =
               [c EXCEPT !.result =
                  IF realm = "" THEN "badRequest"
                  ELSE IF fault THEN "error"
                  ELSE IF cache' # cache THEN "true" ELSE "false"]]
  /\ UNCHANGED <<configured, now, started, req, seasonVars, libVars>>

\* The route call has returned
OpFinish(o) ==
  /\ ops[o].pc = "done"
  /\ ops' = [ops EXCEPT ![o] = IdleOp]
  /\ UNCHANGED <<enrichVars, seasonVars, cacheOps, libVars>>

Init ==
  /\ configured \in BOOLEAN
  /\ now = 0
  /\ cache \in {{}, {SeedRow}}
  /\ dbFaults = 0
  /\ started = 0
  /\ req = [r \in Reqs |-> IdleReq]
  /\ season \in {{}, {ActiveSeason}}
  /\ adm = [a \in Admins |-> IdleAdm]
  /\ seasonOps = 0
  /\ ops = [o \in Callers |-> IdleOp]
  /\ cacheOps = 0
  /\ tzOffset = 0
  /\ call = NoCall

Next ==
  \/ \E r \in Reqs : Start(r)
  \/ \E r \in Reqs : LoadConfig(r)
  \/ \E r \in Reqs : Token(r)
  \/ \E r \in Reqs : Query(r)
  \/ \E r \in Reqs : BkToken(r)
  \/ \E r \in Reqs : BkQuery(r)
  \/ \E r \in Reqs : Write(r)
  \/ \E r \in Reqs : FailWrite(r)
  \/ \E r \in Reqs : Finish(r)
  \/ Tick
  \/ SetCredentials

Spec == Init /\ [][Next]_vars

SeasonNext ==
  \/ \E a \in Admins : CreateStart(a)
  \/ \E a \in Admins : CreateInsert(a)
  \/ \E a \in Admins : UpdateStart(a)
  \/ \E a \in Admins : UpdateCheck(a)
  \/ \E a \in Admins : UpdateWrite(a)
  \/ \E a \in Admins : AdmFinish(a)

SeasonInit == Init /\ configured /\ cache = {}

SeasonSpec == SeasonInit /\ [][SeasonNext]_vars

\* Enrich requests running together with the character-cache routes, with
\* the credentials configured and no active season config
CacheNext ==
  \/ \E r \in Reqs : Start(r)
  \/ \E r \in Reqs : LoadConfig(r)
  \/ \E r \in Reqs : Token(r)
  \/ \E r \in Reqs : Query(r)
  \/ \E r \in Reqs : Write(r)
  \/ \E r \in Reqs : FailWrite(r)
  \/ \E r \in Reqs : Finish(r)
  \/ Tick
  \/ \E o \in Callers : UpsertStart(o)
  \/ \E o \in Callers : UpsertWrite(o)
  \/ \E o \in Callers : DeleteCall(o)
  \/ \E o \in Callers : OpFinish(o)

\* One enrich request is admitted next to the route calls
CacheInit ==
  /\ configured = TRUE
  /\ now = 0
  /\ cache \in {{}, {SeedRow}}
  /\ dbFaults = 0
  /\ started = MaxStarts - 1
  /\ req = [r \in Reqs |-> IdleReq]
  /\ season = {}
  /\ adm = [a \in Admins |-> IdleAdm]
  /\ seasonOps = 0
  /\ ops = [o \in Callers |-> IdleOp]
  /\ cacheOps = 0
  /\ tzOffset = 0
  /\ call = NoCall

CacheSpec == CacheInit /\ [][CacheNext]_vars

\* One enrich request at a time on a host whose TZ is not UTC
\* Every upstream HTTP call and every storage call of a request that has
\* been accepted eventually returns or fails, and Node's event loop then runs
\* the continuation that awaits it.  Arrivals, the end of a response, the
\* clock and restarts are under no obligation.
Fairness ==
  \A r \in Reqs :
    /\ WF_vars(LoadConfig(r))
    /\ WF_vars(Token(r))
    /\ WF_vars(Query(r))
    /\ WF_vars(BkToken(r))
    /\ WF_vars(BkQuery(r))
    /\ WF_vars(Write(r))
    /\ WF_vars(FailWrite(r))

\* One request at a time from arrival to response, on a host in any of the
\* time zones: handlers share no lock, so no request can hold up another
LiveInit ==
  /\ configured \in BOOLEAN
  /\ now = 0
  /\ cache \in {{}, {SeedRow}}
  /\ dbFaults = 0
  /\ started = MaxStarts - 1
  /\ req = [r \in Reqs |-> IdleReq]
  /\ season \in {{}, {ActiveSeason}}
  /\ adm = [a \in Admins |-> IdleAdm]
  /\ seasonOps = 0
  /\ ops = [o \in Callers |-> IdleOp]
  /\ cacheOps = 0
  /\ tzOffset \in HostOffsets
  /\ call = NoCall

LiveSpec == LiveInit /\ [][Next]_vars /\ Fairness

HostInit ==
  /\ configured \in BOOLEAN
  /\ now = 0
  /\ cache \in {{}, {SeedRow}}
  /\ dbFaults = 0
  /\ started = MaxStarts - 1
  /\ req = [r \in Reqs |-> IdleReq]
  /\ season \in {{}, {ActiveSeason}}
  /\ adm = [a \in Admins |-> IdleAdm]
  /\ seasonOps = 0
  /\ ops = [o \in Callers |-> IdleOp]
  /\ cacheOps = 0
  /\ tzOffset \in HostOffsets \ {0}
  /\ call = NoCall

HostSpec == HostInit /\ [][Next]_vars

\* ------------------------------------------- library functions on their own
\* A cache entry as a caller of isCacheStale holds it: null, or a row
\* updated at hour u
EntryUpdatedAt(u) == [SeedRow EXCEPT !.updated_at = DATETIME(u)]

\* The thresholds callers pass: the route's TTL and the default of 24 are
\* represented by the TTL and a shorter one
MaxAges == {CACHE_TTL_HOURS \div 2, CACHE_TTL_HOURS}

\* isCacheStale applied at hour t to null or to a row updated at hour u
isCacheStaleCall ==
  \E t \in 0..MaxTime, maxAgeHours \in MaxAges :
    \E entry \in {{}} \cup {{EntryUpdatedAt(u)} : u \in 0..t} :
      /\ call = NoCall
      /\ call' = [fn |-> "isCacheStale", cache |-> entry, maxAgeHours |-> maxAgeHours,
                  now |-> t, result |-> isCacheStale(entry, maxAgeHours, t)]
      /\ UNCHANGED <<enrichVars, seasonVars, cacheOpVars, tzOffset>>

\* A map that knows Mythic only
DIFFICULTY_MAP_MythicOnly(difficulty) ==
  IF difficulty = 5 THEN "Mythic" ELSE Undefined

\* DIFFICULTY_MAP[difficulty]: undefined for a code other than 5, 4, 3
DIFFICULTY_MAP(difficulty) ==
  CASE difficulty = 5 -> "Mythic"
    [] difficulty = 4 -> "Heroic"
    [] difficulty = 3 -> "Normal"
    [] OTHER -> Undefined

DIFFICULTY_RANK(name) ==
  CASE name = "Mythic" -> 3
    [] name = "Heroic" -> 2
    [] name = "Normal" -> 1

\* Array.prototype.find over encounters / encounterNames: the first element
\* with the id, as a set of at most one element
FindById(seq, field, id) ==
  LET hits == {i \in 1..Len(seq) : seq[i][field] = id}
  IN IF hits = {} THEN {}
     ELSE {seq[CHOOSE i \in hits : \A j \in hits : i <= j]}

\* The loop over encounter.kills, from kill i on
RECURSIVE HardestFrom(_, _, _)
HardestFrom(kills, i, hardestDifficulty) ==
  IF i > Len(kills) THEN hardestDifficulty
  ELSE LET difficultyName == DIFFICULTY_MAP(kills[i].difficulty)
       IN HardestFrom(kills, i + 1,
            IF difficultyName # Undefined
               /\ (\/ hardestDifficulty = Null
                   \/ DIFFICULTY_RANK(difficultyName) > DIFFICULTY_RANK(hardestDifficulty))
            THEN difficultyName ELSE hardestDifficulty)

\* The loop over encounterOrder from orderIndex (0-based) down to 0; bestKill
\* is a set holding at most one record, empty for null
RECURSIVE BestKillFrom(_, _, _, _)
BestKillFrom(progression, encounterOrder, encounterNames, orderIndex) ==
  IF orderIndex < 0 THEN {}
  ELSE
    LET encounterId == encounterOrder[orderIndex + 1]
        encounter == FindById(progression.encounters, "encounterId", encounterId)
        next == BestKillFrom(progression, encounterOrder, encounterNames, orderIndex - 1)
    IN IF encounter = {} \/ \A e \in encounter : Len(e.kills) = 0 THEN next
       ELSE
         LET hardestDifficulty ==
               HardestFrom((CHOOSE e \in encounter : TRUE).kills, 1, Null)
             bossNameEntry == FindById(encounterNames, "id", encounterId)
         IN IF hardestDifficulty = Null THEN next
            ELSE {[bossId |-> encounterId,
                   bossName |-> IF bossNameEntry = {} THEN "Boss " \o ToString(encounterId)
                                ELSE (CHOOSE e \in bossNameEntry : TRUE).name,
                   difficulty |-> hardestDifficulty,
                   orderIndex |-> orderIndex]}

\* An order walked from the first boss to the deepest
RECURSIVE BestKillUpFrom(_, _, _, _)
BestKillUpFrom(progression, encounterOrder, encounterNames, orderIndex) ==
  IF orderIndex >= Len(encounterOrder) THEN {}
  ELSE
    LET one == BestKillFrom(progression, <<encounterOrder[orderIndex + 1]>>,
                            encounterNames, 0)
    IN IF one = {}
       THEN BestKillUpFrom(progression, encounterOrder, encounterNames, orderIndex + 1)
       ELSE {[bestKill EXCEPT !.orderIndex = orderIndex] : bestKill \in one}

computeBestBossKill_ShallowestFirst(progression, encounterOrder, encounterNames) ==
  BestKillUpFrom(progression, encounterOrder, encounterNames, 0)

computeBestBossKill(progression, encounterOrder, encounterNames) ==
  IF Len(progression.encounters) = 0 THEN {}
  ELSE BestKillFrom(progression, encounterOrder, encounterNames,
                    Len(encounterOrder) - 1)

\* A tier of three encounters; the names of the first two are configured
EncounterIds == <<3009, 3010, 3011>>
EncounterNames ==
  <<[id |-> 3009, name |-> "Plexus Sentinel"], [id |-> 3010, name |-> "Loom'ithar"]>>
EncounterOrders == {<<>>, EncounterIds, <<3011, 3009>>}
\* The kills recorded for one encounter, by upstream difficulty code
\* (1 is Raid Finder)
KillLists ==
  {<<>>, <<[difficulty |-> 1]>>, <<[difficulty |-> 3]>>, <<[difficulty |-> 4]>>,
   <<[difficulty |-> 3], [difficulty |-> 5]>>,
   <<[difficulty |-> 5], [difficulty |-> 3]>>}

\* The progression holding the encounters of `present` with the kills `kills`
ProgressionOf(present, kills) ==
  [encounters |->
     SelectSeq([i \in 1..Len(EncounterIds) |->
                  [encounterId |-> EncounterIds[i],
                   encounterName |-> "Encounter " \o ToString(EncounterIds[i]),
                   kills |-> kills[i]]],
               LAMBDA e : e.encounterId \in present)]

computeBestBossKillCall ==
  \E present \in SUBSET {EncounterIds[i] : i \in 1..Len(EncounterIds)},
     kills \in [1..Len(EncounterIds) -> KillLists],
     encounterOrder \in EncounterOrders :
    LET progression == ProgressionOf(present, kills) IN
    /\ call = NoCall
    /\ call' = [fn |-> "computeBestBossKill", progression |-> progression,
                encounterOrder |-> encounterOrder,
                result |-> computeBestBossKill(progression, encounterOrder,
                                               EncounterNames)]
    /\ UNCHANGED <<enrichVars, seasonVars, cacheOpVars, tzOffset>>

\* URLs given to the parser on its own: the request inputs, other spellings
\* of the same profile, other hosts, and malformed paths
ParseInputs ==
  Urls \cup
  {"https://www.warcraftlogs.com/character/EU/Tarren-Mill/TESTCHAR",
   "www.warcraftlogs.com/character/us/area-52/testchar",
   "  https://www.warcraftlogs.com/character/us/area-52/testchar  ",
   "https://classic.warcraftlogs.com/character/kr/azshara/ab/extra?tab=1",
   "https://warcraftlogs.com/character/tw/area-52/Testchar#top",
   "https://warcraftlogs.com.evil.example/character/us/area-52/testchar",
   "https://notwarcraftlogs.com/character/us/area-52/testchar",
   "https://example.com/character/us/area-52/testchar?from=warcraftlogs.com",
   "https://www.warcraftlogs.com/character/xx/area-52/testchar",
   "https://www.warcraftlogs.com/character/us/area_52/testchar",
   "https://www.warcraftlogs.com/character/us/area-52/x",
   "https://www.warcraftlogs.com/character/us/area-52",
   "https://www.warcraftlogs.com/character/id/12ab",
   "https://www.warcraftlogs.com/character/id",
   "https://www.warcraftlogs.com/reports/abc",
   "https://www.warcraftlogs.com",
   "   "}

parseWarcraftLogsCharacterUrlCall ==
  \E url \in ParseInputs :
    /\ call = NoCall
    /\ call' = [fn |-> "parseWarcraftLogsCharacterUrl", url |-> url,
                result |-> parseWarcraftLogsCharacterUrl(url)]
    /\ UNCHANGED <<enrichVars, seasonVars, cacheOpVars, tzOffset>>

buildWarcraftLogsCharacterUrlCall ==
  \E region \in {"US", "us", "xx"}, realm \in {"Area-52", "AREA-52", "area 52"},
     characterName \in {"TestChar", "TESTCHAR", "x"} :
    /\ call = NoCall
    /\ call' = [fn |-> "buildWarcraftLogsCharacterUrl", region |-> region,
                realm |-> realm, characterName |-> characterName,
                result |-> buildWarcraftLogsCharacterUrl(region, realm, characterName)]
    /\ UNCHANGED <<enrichVars, seasonVars, cacheOpVars, tzOffset>>

\* A slug-form URL parsed, rebuilt from the parsed parts, and parsed again
parseBuildParseCall ==
  \E url \in ParseInputs :
    LET first == parseWarcraftLogsCharacterUrl(url)
        built == buildWarcraftLogsCharacterUrl(first.region, first.realm,
                                               first.characterName)
    IN /\ call = NoCall
       /\ first.type = "slug"
       /\ call' = [fn |-> "parse-build-parse", url |-> url, first |-> first,
                   built |-> built,
                   second |-> IF built.ok THEN parseWarcraftLogsCharacterUrl(built.value)
                              ELSE ParseError("", built.message)]
       /\ UNCHANGED <<enrichVars, seasonVars, cacheOpVars, tzOffset>>

LibInit ==
  /\ configured = TRUE
  /\ now = 0
  /\ cache = {}
  /\ dbFaults = 0
  /\ started = 0
  /\ req = [r \in Reqs |-> IdleReq]
  /\ season = {}
  /\ adm = [a \in Admins |-> IdleAdm]
  /\ seasonOps = 0
  /\ ops = [o \in Callers |-> IdleOp]
  /\ cacheOps = 0
  /\ tzOffset \in HostOffsets
  /\ call = NoCall

LibNext ==
  \/ isCacheStaleCall
  \/ computeBestBossKillCall
  \/ parseWarcraftLogsCharacterUrlCall
  \/ buildWarcraftLogsCharacterUrlCall
  \/ parseBuildParseCall

LibSpec == LibInit /\ [][LibNext]_vars

\* ================================================================== claims
Type(q) == ParsedUrls[q.url].type
Responded(r) == req[r].pc # "done" /\ req'[r].pc = "done"
CardOf(q) == CHOOSE card \in q.resp.data : TRUE

\* A cache hit: a 200 built from the cached row, with no fresh card built and
\* no error caught
FreshHit(q) ==
  /\ q.pc = "done" /\ q.resp.status = "OK"
  /\ q.cachedData # {} /\ q.playerCard = EmptyCard /\ q.err = NoErr

\* C1: whenever the upstream fetch of a request fails while the cache holds
\* an entry for the requested identity and season, the response is a 200
\* carrying the cached card with an advisory message (any form of the
\* reference, forceRefresh set or not).
C1_CachedCardOnFetchFailure ==
  \A r \in Reqs :
    (req[r].pc = "done" /\ req[r].fetch = "failed" /\ req[r].rowAtFail) =>
      /\ req[r].resp.status = "OK"
      /\ req[r].resp.data # {}
      /\ \A card \in req[r].resp.data : card.errorMessage # Undefined

\* C2: a slug-form request made while the credentials are not configured and
\* the entry for its identity is stale or missing: with a stale entry it
\* answers 200 with the stale card and a note; it answers 503 only when there
\* is no entry.
C2_StaleCardWhenNotConfigured ==
  \A r \in Reqs :
    (/\ req[r].pc = "done" /\ Type(req[r]) = "slug" /\ ~configured
     /\ req[r].entryAtStart \in {"stale", "missing"}) =>
      /\ req[r].entryAtStart = "stale" =>
           /\ req[r].resp.status = "OK"
           /\ req[r].resp.message # ""
           /\ req[r].resp.data =
                {buildPlayerCardFromCache(row, req[r].url,
                                          seasonConfigUpdatedAt(req[r].activeSeasonConfig)) :
                   row \in findCachedCharacter(cache, IdentityKey(req[r]))}
      /\ req[r].resp.status = "SERVICE_UNAVAILABLE" => req[r].entryAtStart = "missing"

\* C3: when a request whose upstream fetch failed responds, the cache holds a
\* row for its identity and season with fetch_status 'failed' and the error
\* text, whether or not a row existed before.
C3_FailureIsPersisted ==
  [][\A r \in Reqs :
       (Responded(r) /\ req'[r].fetch = "failed") =>
         \E row \in findCachedCharacter(cache', IdentityKey(req'[r])) :
           /\ row.fetch_status = "failed"
           /\ row.error_message = req'[r].err.message]_vars

\* C4: two requests for the same identity and season that both missed the
\* cache (the SELECT of each write found no row) and whose fetches both
\* succeeded both answer 200, and the one row left holds the card of one of
\* the two writes; neither write fails.
C4_ConcurrentMissBothWritesSucceed ==
  \A r \in Reqs : \A s \in Reqs \ {r} :
    (/\ req[r].pc = "done" /\ req[s].pc = "done"
     /\ req[r].fetch = "ok" /\ req[s].fetch = "ok"
     /\ req[r].writes = 1 /\ req[s].writes = 1
     /\ ~req[r].existing /\ ~req[s].existing
     /\ CacheKey(req[r]) = CacheKey(req[s])
     /\ dbFaults = 0) =>
      /\ req[r].resp.status = "OK" /\ req[s].resp.status = "OK"
      /\ Cardinality(findCachedCharacter(cache, CacheKey(req[r]))) = 1
      /\ \A row \in findCachedCharacter(cache, CacheKey(req[r])) :
           row.player_card \in {req[r].playerCard, req[s].playerCard}

\* C5: at most one season_config record is active, in every state reached by
\* any interleaving of createSeasonConfig and updateSeasonConfig calls.
C5_AtMostOneActiveSeason == Cardinality(ActiveIds(season)) <= 1

\* C6: activation is atomic: while a create call that found an active record
\* is between its two statements a read of the active config finds a record,
\* and when its INSERT fails the record that was active before is still
\* active.
C6_ActivationIsAtomic ==
  \A a \in Admins :
    (adm[a].op = "create" /\ adm[a].hadActive # {}) =>
      /\ adm[a].pc = "insert" => getActiveSeasonConfig(season) # {{}}
      /\ adm[a].result = "insertFailed" => adm[a].hadActive \subseteq adm[a].activeAfter

\* C7: a slug-form request with forceRefresh unset, upstream configured, and
\* an entry for its identity and season younger than the 6-hour threshold
\* answers 200 with the card built from that entry, sends no token request
\* and no data query upstream, and leaves the cache (updated_at included)
\* as it was.  The storage statements of the step are taken to succeed.
C7_FreshHitLeavesCacheAlone ==
  [][\A r \in Reqs :
       LET q == req[r]
           entry == findCachedCharacter(cache, IdentityKey(q))
       IN (/\ q.pc = "loadConfig" /\ req'[r] # q
           /\ Type(q) = "slug" /\ ~q.forceRefresh /\ configured
           /\ entry # {}
           /\ \A row \in entry : now - row.updated_at.t < 6
           /\ dbFaults' = dbFaults) =>
            /\ req'[r].pc = "done"
            /\ req'[r].resp.status = "OK"
            /\ req'[r].resp.data =
                 {buildPlayerCardFromCache(row, q.url,
                    seasonConfigUpdatedAt(req'[r].activeSeasonConfig)) : row \in entry}
            /\ req'[r].tokens = 0 /\ req'[r].queries = 0 /\ req'[r].writes = 0
            /\ cache' = cache]_vars

\* A slug-form request answered from an entry that has aged past time 0
C7_Witness ==
  \E r \in Reqs :
    /\ req[r].pc = "done" /\ Type(req[r]) = "slug" /\ ~req[r].forceRefresh
    /\ req[r].resp.message = "Player card returned from cache"
    /\ req[r].tokens = 0 /\ now > 0 /\ configured

\* C8: the card returned on a fresh-cache hit equals, in every field other
\* than warcraftLogsUrl, the card stored in the entry by the fetch that
\* populated it.
C8_FreshHitReturnsStoredCard ==
  \A r \in Reqs :
    FreshHit(req[r]) =>
      \A row \in req[r].cachedData :
        [CardOf(req[r]) EXCEPT !.warcraftLogsUrl = row.player_card.warcraftLogsUrl]
          = row.player_card

\* C9: when a request whose character fetch succeeded (its entry stale or
\* missing) responds, it answers 200 with a card whose fetchStatus is
\* 'complete', and the cache row for its identity and season has fetch_status
\* 'complete', a null error_message and the newly built card.  Storage
\* failures are left out.
C9_FetchSuccessPersistsComplete ==
  [][\A r \in Reqs :
       (/\ Responded(r) /\ req'[r].fetch = "ok" /\ ~FreshHit(req'[r])
        /\ dbFaults' = 0) =>
         /\ req'[r].resp.status = "OK"
         /\ \A card \in req'[r].resp.data : card.fetchStatus = "complete"
         /\ \E row \in findCachedCharacter(cache', CacheKey(req'[r])) :
              /\ row.fetch_status = "complete"
              /\ row.error_message = Null
              /\ row.player_card = req'[r].playerCard]_vars

\* The request's failed fetch was a character-not-found failure
NotFoundFailure(q) ==
  q.err.code = "WCL_CHARACTER_NOT_FOUND" \/ Includes(q.err.message, "not found")

\* The upstream fetch failed and the request holds no cached row
FailedWithoutCache(q) ==
  q.pc = "done" /\ q.fetch = "failed" /\ q.cachedData = {}

C11_BadReferenceIsBadRequest ==
  \A r \in Reqs :
    (req[r].pc = "done" /\ Type(req[r]) = "error" /\ dbFaults = 0) =>
      /\ req[r].resp.status = "BAD_REQUEST"
      /\ req[r].tokens = 0 /\ req[r].queries = 0

\* C12: a storage failure in the cache lookup or in the write-back is not
\* fatal, for either form of the reference: the step in which a storage
\* statement of a request fails never ends the request with an error, and a
\* failed write-back still answers 200 with the fresh card.
C12_StorageFailureIsNonFatal ==
  [][\A r \in Reqs :
       (/\ req[r].pc \notin {"idle", "done"} /\ req'[r] # req[r]
        /\ Type(req[r]) # "error"
        /\ dbFaults' > dbFaults) =>
         /\ req'[r].pc = "done" => req'[r].resp.status = "OK"
         /\ req[r].pc = "write" =>
              /\ req'[r].pc = "done"
              /\ req'[r].resp.data = {req[r].playerCard}]_vars

C15_FailedFetchIsRetried ==
  [][\A r \in Reqs :
       (/\ req[r].pc = "loadConfig" /\ req'[r] # req[r]
        /\ Type(req[r]) = "slug" /\ ~req[r].forceRefresh /\ configured
        /\ \E row \in findCachedCharacter(cache, IdentityKey(req[r])) :
             row.fetch_status = "failed"
        /\ dbFaults' = 0) =>
         req'[r].pc = "token"]_vars

\* The tests of the parser's normalizers, as predicates on a finished key
IsRealmSlug(s) ==
  Len(s) > 0 /\ CharsOf(s) \subseteq (LowerLetters \cup Digits \cup {"-"})
IsCharacterName(s) ==
  /\ Len(s) >= 2 /\ Len(s) <= 12
  /\ SubSeq(s, 1, 1) \in UpperLetters
  /\ CharsOf(SubSeq(s, 2, Len(s))) \subseteq LowerLetters
NormalizedKey(key) ==
  /\ key.region \in {toUpperCase(region) : region \in VALID_REGIONS}
  /\ IsRealmSlug(key.realm)
  /\ IsCharacterName(key.character_name)

\* C16: every cache key the enrich operation writes, or has looked up, is
\* normalized: region one of the five codes, realm a lowercase slug,
\* characterName 2-12 letters with only the first capitalized.
C16_CacheKeysAreNormalized ==
  /\ \A row \in cache : NormalizedKey(KeyOf(row))
  /\ \A r \in Reqs :
       (req[r].pc = "write" \/ req[r].cachedData # {}) => NormalizedKey(CacheKey(req[r]))

\* C17: the numeric-id form and the slug form of the same character share one
\* cache row: the cache never holds a second row for the character and
\* season (every reference of the model denotes the one character).
C17_OneRowForBothForms ==
  Cardinality({row \in cache : row.region = "US" /\ row.character_name = "Testchar"
                               /\ row.season_key = "latest"}) <= 1

\* C18: in every reachable state, under any interleaving of upsert, delete
\* and enrich operations, the cache holds at most one row per
\* (region, realm, character_name, season_key).
C18_OneRowPerKey == \A a, b \in cache : KeyOf(a) = KeyOf(b) => a = b

\* An upsert whose SELECT found no row had its INSERT rejected by the
\* constraint, because another writer inserted the key in between
C18_Witness ==
  \E o \in Callers :
    /\ ops[o].pc = "done" /\ ops[o].kind = "upsert"
    /\ ~ops[o].existing /\ ops[o].result = "error"
    /\ dbFaults = 0
    /\ Cardinality(findCachedCharacter(cache, ops[o].lookup)) = 1

Keys(table) == {KeyOf(row) : row \in table}
DeleteReturned(o) ==
  /\ ops[o].pc = "idle" /\ ops'[o].kind = "delete"
  /\ ops'[o].result \in {"true", "false"}

\* C19: no enrich request and no upsert ever removes a cache row: the set of
\* cached keys shrinks only in a deleteCacheEntry call, and that call removes
\* exactly the row with the addressed four-part key and leaves every other
\* row (other seasons of the same character included) unchanged.
C19_OnlyDeleteRemovesRows ==
  [][/\ ~(Keys(cache) \subseteq Keys(cache')) => \E o \in Callers : DeleteReturned(o)
     /\ \A o \in Callers :
          DeleteReturned(o) =>
            cache' = cache \ {row \in cache : KeyOf(row) = ops'[o].lookup}]_vars

\* A delete removed one season's row of a character whose other season's
\* row is still there
C19_Witness ==
  \E o \in Callers :
    /\ ops[o].pc = "done" /\ ops[o].kind = "delete" /\ ops[o].result = "true"
    /\ findCachedCharacter(cache, ops[o].lookup) = {}
    /\ \E row \in cache :
         /\ row.region = ops[o].lookup.region /\ row.realm = ops[o].lookup.realm
         /\ row.character_name = ops[o].lookup.character_name
         /\ row.season_key # ops[o].lookup.season_key

UpsertUpdated(o) ==
  /\ ops[o].pc = "write" /\ ops[o].existing
  /\ ops'[o].pc = "done" /\ ops'[o].result = "ok"
  /\ findCachedCharacter(cache, ops[o].lookup) # {}

\* C20: every upsert on an existing cache row refreshes the row's
\* updated_at, including an upsert that supplies the key fields only and no
\* optional field.
C20_UpsertAlwaysRefreshes ==
  [][\A o \in Callers :
       UpsertUpdated(o) =>
         \A row \in findCachedCharacter(cache', ops[o].lookup) :
           row.updated_at = DATETIME(now)]_vars

\* C21: isCacheStale(entry, maxAgeHours) is true exactly when the entry is
\* null or its age (now minus the instant it was last updated) is at least
\* maxAgeHours: an entry exactly maxAgeHours old is stale, one updated 7 hours
\* ago is stale at threshold 6, and one updated 5 hours ago is not.
C21_StaleExactlyWhenOldEnough ==
  call.fn = "isCacheStale" =>
    call.result = (\/ call.cache = {}
                   \/ \E row \in call.cache :
                        call.now - row.updated_at.t >= call.maxAgeHours)

BestKillCall == call.fn = "computeBestBossKill"
\* The kills recorded for the encounter listed at position i of the order
KillsAt(i) ==
  LET encs == call.progression.encounters
      hits == {k \in 1..Len(encs) : encs[k].encounterId = call.encounterOrder[i]}
  IN IF hits = {} THEN <<>> ELSE encs[CHOOSE k \in hits : TRUE].kills
RankOfCode(code) == IF code = 5 THEN 3 ELSE IF code = 4 THEN 2 ELSE IF code = 3 THEN 1 ELSE 0
RankOfName(name) == IF name = "Mythic" THEN 3 ELSE IF name = "Heroic" THEN 2 ELSE 1
RanksAt(i) == {RankOfCode(KillsAt(i)[k].difficulty) : k \in 1..Len(KillsAt(i))}
Listed == 1..Len(call.encounterOrder)
WithKill == {i \in Listed : Len(KillsAt(i)) >= 1}
WithRankedKill == {i \in Listed : \E rank \in RanksAt(i) : rank >= 1}
Deepest(S) == CHOOSE i \in S : \A j \in S : j <= i
\* The result names the encounter at position i with its best ranked kill
ResultIs(i) ==
  \E bestKill \in call.result :
    /\ call.result = {bestKill}
    /\ bestKill.bossId = call.encounterOrder[i]
    /\ bestKill.orderIndex = i - 1
    /\ RankOfName(bestKill.difficulty) \in RanksAt(i)
    /\ \A rank \in RanksAt(i) : rank <= RankOfName(bestKill.difficulty)

\* C22 as stated: computeBestBossKill returns the encounter with the greatest
\* index in encounterOrder among the encounters that have at least one
\* recorded kill, with the highest-ranked difficulty among its kills and that
\* index.
C22_DeepestKilledEncounterWins ==
  (BestKillCall /\ WithKill # {}) => ResultIs(Deepest(WithKill))

\* C22: computeBestBossKill returns the encounter with the greatest index in
\* encounterOrder among the encounters that have at least one kill of a ranked
\* difficulty (Mythic, Heroic or Normal), with the highest-ranked difficulty
\* (Mythic > Heroic > Normal) among its kills and that index; a shallower
\* encounter never wins, whatever its difficulty.
C22_DeepestRankedKillWins ==
  (BestKillCall /\ WithRankedKill # {}) => ResultIs(Deepest(WithRankedKill))

\* The deepest killed encounter won at Normal over a shallower one killed
\* at Mythic
C22_Witness ==
  /\ BestKillCall
  /\ \E bestKill \in call.result :
       /\ bestKill.difficulty = "Normal"
       /\ \E i \in WithRankedKill : i - 1 < bestKill.orderIndex /\ 3 \in RanksAt(i)

\* C23 as stated: computeBestBossKill returns null exactly when no encounter
\* listed in the tier's encounterOrder has a recorded kill.
C23_NullExactlyWhenNoKill ==
  BestKillCall => (call.result = {} <=> WithKill = {})

\* C23: computeBestBossKill returns null exactly when no encounter listed in
\* the tier's encounterOrder has a recorded kill of a ranked difficulty
\* (Mythic, Heroic or Normal); whenever some listed encounter has such a kill
\* the result is non-null.
C23_NullExactlyWhenNoRankedKill ==
  BestKillCall => (call.result = {} <=> WithRankedKill = {})

\* Null for a character whose only ranked kill is of an encounter the tier's
\* order does not list
C23_Witness ==
  /\ BestKillCall /\ call.result = {}
  /\ call.encounterOrder # <<>>
  /\ \E k \in 1..Len(call.progression.encounters) :
       LET e == call.progression.encounters[k]
       IN /\ \A i \in Listed : call.encounterOrder[i] # e.encounterId
          /\ \E j \in 1..Len(e.kills) : RankOfCode(e.kills[j].difficulty) >= 1

\* C24: for every valid slug-form URL u, parsing u, building a URL from the
\* parsed region, realm and characterName, and parsing that URL again yields
\* the same region, realm and characterName as the first parse.
C24_ParseBuildParseIsIdentity ==
  call.fn = "parse-build-parse" =>
    /\ call.built.ok
    /\ call.second.type = "slug"
    /\ call.second.region = call.first.region
    /\ call.second.realm = call.first.realm
    /\ call.second.characterName = call.first.characterName

\* A round trip from a URL that is not the one the builder prints
C24_Witness ==
  /\ call.fn = "parse-build-parse"
  /\ call.built.ok /\ call.built.value # call.url
  /\ call.first.characterName = "Testchar" /\ call.first.region = "EU"
  /\ call.second.type = "slug"

ParseCall == call.fn = "parseWarcraftLogsCharacterUrl"
\* The hostname of the URL the parser was given
HostOf(url) ==
  NewURL(IF startsWith(trim(url), "http") THEN trim(url) ELSE "https://" \o trim(url))
endsWith(s, suffix) ==
  Len(s) >= Len(suffix) /\ SubSeq(s, Len(s) - Len(suffix) + 1, Len(s)) = suffix
IsUpstreamHost(hostname) ==
  hostname = "warcraftlogs.com" \/ endsWith(hostname, ".warcraftlogs.com")

\* C25: parse fails with an invalid-domain error for every URL whose hostname
\* is not the upstream domain warcraftlogs.com or a subdomain of it, including
\* hostnames that merely contain that text.
C25_ForeignHostIsRejected ==
  (ParseCall /\ HostOf(call.url).ok /\ ~IsUpstreamHost(HostOf(call.url).hostname)) =>
    /\ call.result.type = "error"
    /\ startsWith(call.result.message, "Invalid domain")

\* Request r takes its failure write-back step while holding a cache entry
FailureWriteBack(r) ==
  /\ req[r].pc = "failWrite" /\ req'[r] # req[r]
  /\ Type(req[r]) = "slug" /\ req[r].cachedData # {}

\* C26: when a slug-form fetch fails and the request holds a cache entry, the
\* write-back changes only fetch_status, error_message and updated_at of that
\* row: the stored player card, wcl_last_fetched_at, the key columns and
\* every other row are unchanged.
C26_FailureWriteBackFrame ==
  [][\A r \in Reqs :
       FailureWriteBack(r) =>
         LET key == CacheKey(req[r]) IN
         /\ {row \in cache' : KeyOf(row) # key} = {row \in cache : KeyOf(row) # key}
         /\ \A new \in findCachedCharacter(cache', key) :
              \E old \in findCachedCharacter(cache, key) :
                [new EXCEPT !.fetch_status = old.fetch_status,
                            !.error_message = old.error_message,
                            !.updated_at = old.updated_at] = old]_vars

\* A data query is in flight from the moment its call's token request
\* succeeds until the query answers
QueryInFlight(q) == q.pc \in {"query", "bkQuery"}
TokenPending(q) == q.pc \in {"token", "bkToken"}

\* C27: each upstream data query is issued in the step in which a token
\* request of the same client call succeeds (the character query after the
\* character fetch's token, the progression query after the progression
\* call's token), each acquired token serves that one query, so that at the
\* moment a query answers the request has acquired exactly one token more
\* than it has had queries answered, and a token request that fails is
\* followed by no query of that call
C27_OneTokenPerQuery ==
  [][\A r \in Reqs :
       /\ (~QueryInFlight(req[r]) /\ QueryInFlight(req'[r])) =>
            /\ TokenPending(req[r])
            /\ req'[r].pc = (IF req[r].pc = "token" THEN "query" ELSE "bkQuery")
            /\ req'[r].tokens = req[r].tokens + 1
            /\ req'[r].tokens = req'[r].queries + 1
       /\ (req'[r].queries # req[r].queries /\ req'[r].pc # "idle") =>
            /\ QueryInFlight(req[r])
            /\ req'[r].queries = req[r].queries + 1
            /\ req'[r].tokens = req[r].tokens
            /\ req'[r].tokens = req'[r].queries
            /\ req'[r].pc # req[r].pc
       /\ (TokenPending(req[r]) /\ req'[r].pc # req[r].pc /\ ~QueryInFlight(req'[r])) =>
            /\ req'[r].pc \in {"write", "failWrite", "done"}
            /\ req'[r].queries = req[r].queries
       /\ (req[r].pc \in {"write", "failWrite", "done"}) =>
            req'[r].pc \in {req[r].pc, "failWrite", "done", "idle"}]_vars

\* A request answered after both of its client calls acquired a token and
\* sent a query, and another whose token request failed before any query
C27_Witness ==
  /\ \E r \in Reqs : req[r].pc = "done" /\ req[r].tokens = 2 /\ req[r].queries = 2
  /\ \E r \in Reqs : req[r].pc = "done" /\ req[r].tokens = 1 /\ req[r].queries = 0
                     /\ req[r].fetch = "failed"

\* A request whose upsertCacheEntry has run its SELECT and waits to write
WriteBackPending(q) == q.pc \in {"write", "failWrite"}

\* The table after the pending write-back of request q is applied to it
AfterWriteBack(table, q) ==
  upsertCacheEntry(table, q.existing,
                   IF q.pc = "write" THEN CompleteData(CacheKey(q), q.playerCard, now)
                   ELSE FailedData(CacheKey(q), q.err.message),
                   now).table

\* The columns of the row under a key that the requests leave behind
FinalRow(table, lookup) ==
  {[player_card |-> row.player_card, fetch_status |-> row.fetch_status,
    error_message |-> row.error_message] : row \in findCachedCharacter(table, lookup)}

\* C28: when two requests for the same identity and season both wait to
\* write back, the row left under their key (player card, fetch_status,
\* error_message) is the same whichever of the two write-backs is applied
\* first, also when one fetch succeeded and the other failed
C28_WriteBackOrderIsIrrelevant ==
  \A a \in Reqs, b \in Reqs :
    (a # b /\ WriteBackPending(req[a]) /\ WriteBackPending(req[b])
       /\ CacheKey(req[a]) = CacheKey(req[b])) =>
      FinalRow(AfterWriteBack(AfterWriteBack(cache, req[a]), req[b]), CacheKey(req[a]))
        = FinalRow(AfterWriteBack(AfterWriteBack(cache, req[b]), req[a]), CacheKey(req[a]))

\* The rows a step adds under keys that held no row before it
CreatedRows == {row \in cache' : KeyOf(row) \notin Keys(cache)}

\* C29: whatever deleteCacheEntry calls run beside it, every row a write-back
\* of an enrich request creates holds the player card that request built from
\* a successful fetch, never the empty card
C29_EnrichCreatesNoEmptyCard ==
  [][\A r \in Reqs :
       (WriteBackPending(req[r]) /\ req'[r] # req[r]) =>
         \A row \in CreatedRows :
           /\ row.player_card # EmptyCard
           /\ req[r].fetch = "ok"
           /\ row.player_card = req[r].playerCard]_vars

\* The handler of request r has returned its response
HasResponse(q) == q.pc = "done" /\ q.resp # NoResp

\* C30: provided every upstream and storage call returns or fails, every
\* accepted request reaches its response; it responds once (the response is
\* produced by one step, from a request that had none, and is not replaced),
\* by then it has made at most two token requests and two data queries, and
\* once its character fetch has failed it makes no further upstream call
C30_EveryRequestRespondsOnce ==
  /\ \A r \in Reqs : (req[r].pc # "idle") ~> HasResponse(req[r])
  /\ [][\A r \in Reqs :
          /\ req'[r].tokens <= 2 /\ req'[r].queries <= 2
          /\ (HasResponse(req'[r]) /\ ~HasResponse(req[r])) => req[r].resp = NoResp
          /\ HasResponse(req[r]) => req'[r] \in {req[r], IdleReq}
          /\ (req'[r].resp # NoResp) => HasResponse(req'[r])
          /\ (req[r].fetch = "failed" /\ req'[r].pc # "idle") =>
               /\ req'[r].tokens = req[r].tokens
               /\ req'[r].queries = req[r].queries]_vars

\* A request answered after two token requests and two data queries
C30_Witness ==
  \E r \in Reqs : HasResponse(req[r]) /\ req[r].tokens = 2 /\ req[r].queries = 2
                  /\ req[r].writes = 1

====
